---- MODULE Spec2Model ----
(***************************************************************************)
(* A model of ExpShell (src/ExpShell.cpp): the command-line parser, the    *)
(* tree-walking executor run_cmd with its processes, descriptor tables and *)
(* pipes, and the prompt loop of main.                                     *)
(*                                                                         *)
(* A line of text is a sequence of one-character strings.  Indices into a  *)
(* line are 0-based as in the source; At(s, i) is s[i].                    *)
(***************************************************************************)
EXTENDS Integers, Sequences, FiniteSets, TLC

VARIABLES
  procs,     \* the process table: pid -> process (descriptors, stack, status)
  nfault,    \* failures of OS primitives injected while running this line
  faults,    \* the kinds of primitive that failed while running this line
  in_line,   \* parser specification: the line handed to parse
  out_cmd,   \* parser specification: the tree parse returned
  parsed     \* parser specification: parse has run

vars == <<procs, nfault, faults, in_line, out_cmd, parsed>>

\* ------------------------------------------------------------------ bounds
\* longest enumerated input line of the parser specification
MaxLen == 5
\* slots of the process table (the shell is pid 0)
MaxProcs == 10
\* highest descriptor number of a process
MaxFd == 6
\* failures of OS primitives the environment may inject per input line
MaxFaults == 2

\* ------------------------------------------------------- program constants
WHITE_SPACE == {" ", "\t", "\r", "\n"}
SYMBOL == {"|", "<", ">"}
QUOTE == "\""
NUL == "NUL"

CMD_TYPE_NULL == 0
CMD_TYPE_EXEC == 1
CMD_TYPE_PIPE == 2
CMD_TYPE_REDIR_IN == 4
CMD_TYPE_REDIR_OUT == 8

\* ---------------------------------------------------------- string utilities
Min(a, b) == IF a < b THEN a ELSE b

\* s[i] of a std::string: the terminating '\0' is readable at i = length
At(s, i) == IF i >= 0 /\ i < Len(s) THEN s[i + 1] ELSE NUL

\* s.substr(pos, n) for pos <= length: at most n characters from pos
Substr(s, pos, n) == SubSeq(s, pos + 1, Min(pos + n, Len(s)))

\* s.substr(pos)
SubstrFrom(s, pos) == SubSeq(s, pos + 1, Len(s))

is_white_space(ch) == ch \in WHITE_SPACE

is_symbol(ch) == ch \in SYMBOL

RECURSIVE SkipWsUp(_, _)
SkipWsUp(s, p) == IF is_white_space(At(s, p)) THEN SkipWsUp(s, p + 1) ELSE p

RECURSIVE SkipWsDown(_, _)
SkipWsDown(s, q) ==
  IF q >= 0 /\ is_white_space(At(s, q)) THEN SkipWsDown(s, q - 1) ELSE q

\* trim: on a string of white space only, q runs below 0 (a read before the
\* buffer); p is then the length, so whatever q ends at the result is empty.
trim(s) ==
  IF Len(s) = 0 THEN s
  ELSE LET p == SkipWsUp(s, 0)
           q == SkipWsDown(s, Len(s) - 1)
       IN  IF p >= Len(s) THEN << >> ELSE Substr(s, p, q - p + 1)

\* s.find_first_of(delims, p), Len(s) standing for npos
RECURSIVE find_first_of(_, _, _)
find_first_of(s, delims, p) ==
  IF p >= Len(s) THEN Len(s)
  ELSE IF At(s, p) \in delims THEN p
  ELSE find_first_of(s, delims, p + 1)

RECURSIVE string_split_from(_, _, _, _)
string_split_from(s, delims, p, vec) ==
  LET q == find_first_of(s, delims, p)
  IN  IF q < Len(s)
      THEN string_split_from(s, delims, q + 1,
                             IF q > p THEN Append(vec, Substr(s, p, q - p))
                                      ELSE vec)
      ELSE IF p < Len(s) THEN Append(vec, SubstrFrom(s, p)) ELSE vec

string_split(s, delims) == string_split_from(s, delims, 0, << >>)

\* the index at which the inner loop of string_split_protect stops:
\* the next quote at or after i, or the length
RECURSIVE QuoteStop(_, _)
QuoteStop(str, i) ==
  IF At(str, i) # QUOTE /\ i < Len(str) THEN QuoteStop(str, i + 1) ELSE i

RECURSIVE split_protect_from(_, _, _, _)
split_protect_from(str, i, tmp, vec) ==
  IF i >= Len(str)
  THEN IF Len(tmp) > 0 THEN Append(vec, tmp) ELSE vec
  ELSE IF is_white_space(At(str, i))
       THEN split_protect_from(str, i + 1, << >>, Append(vec, tmp))
  ELSE IF At(str, i) = QUOTE
       THEN LET e == QuoteStop(str, i + 1)
            IN  split_protect_from(str, e + 1,
                                   tmp \o Substr(str, i + 1, e - (i + 1)), vec)
  ELSE split_protect_from(str, i + 1, Append(tmp, At(str, i)), vec)

string_split_protect(str) == split_protect_from(str, 0, << >>, << >>)

\* string_split_protect panics "unclosed quote" (and goes on) when the scan
\* of a quoted part reaches the end of the string
RECURSIVE unclosed_from(_, _)
unclosed_from(str, i) ==
  IF i >= Len(str) THEN FALSE
  ELSE IF At(str, i) = QUOTE
       THEN LET e == QuoteStop(str, i + 1)
            IN  IF e = Len(str) THEN TRUE ELSE unclosed_from(str, e + 1)
  ELSE unclosed_from(str, i + 1)

\* ------------------------------------------------------------ command trees
NullCmd == [type |-> CMD_TYPE_NULL]

exec_cmd(argv) == [type |-> CMD_TYPE_EXEC, argv |-> argv]

pipe_cmd(left, right) == [type |-> CMD_TYPE_PIPE, left |-> left, right |-> right]

redirect_cmd(type, cmd_, file, fd) ==
  [type |-> type, cmd_ |-> cmd_, file |-> file, fd |-> fd]

IsRedir(c) == c.type \in {CMD_TYPE_REDIR_IN, CMD_TYPE_REDIR_OUT}

parse_exec_cmd(seg) == exec_cmd(string_split_protect(trim(seg)))

\* the scan for the end of the file name: first symbol after the operator
RECURSIVE FileStop(_, _)
FileStop(line, j) ==
  IF j < Len(line) /\ ~is_symbol(At(line, j)) THEN FileStop(line, j + 1) ELSE j

\* the file name taken by the redirect branch: substr(i + 1, j - i)
RedirFile(line, i, j) == trim(Substr(line, i + 1, j - i))

RECURSIVE parse(_)
RECURSIVE parse_loop(_, _, _, _)
parse_loop(line, i, cur_read, cur_cmd) ==
  IF i >= Len(line)
  THEN IF cur_cmd.type = CMD_TYPE_NULL THEN parse_exec_cmd(cur_read)
                                       ELSE cur_cmd
  ELSE IF At(line, i) = "<" \/ At(line, i) = ">"
       THEN LET lhs  == parse_exec_cmd(cur_read)
                j    == FileStop(line, i + 1)
                file == RedirFile(line, i, j)
            IN  parse_loop(line, j, cur_read,
                           redirect_cmd(IF At(line, i) = "<"
                                          THEN CMD_TYPE_REDIR_IN
                                          ELSE CMD_TYPE_REDIR_OUT,
                                        lhs, file, -1))
  ELSE IF At(line, i) = "|"
       THEN LET rhs == parse(SubstrFrom(line, i + 1))
            IN  pipe_cmd(IF cur_cmd.type = CMD_TYPE_NULL
                           THEN parse_exec_cmd(cur_read)
                           ELSE cur_cmd,
                         rhs)
  ELSE parse_loop(line, i + 1, Append(cur_read, At(line, i)), cur_cmd)

parse(line) == parse_loop(trim(line), 0, << >>, NullCmd)

\* ------------------------------------------------------------ descriptors
Fds == 0..MaxFd

Closed == [kind |-> "closed", id |-> 0, name |-> << >>]
Tty == [kind |-> "tty", id |-> 0, name |-> << >>]
PipeR(k) == [kind |-> "pr", id |-> k, name |-> << >>]
PipeW(k) == [kind |-> "pw", id |-> k, name |-> << >>]
File(name) == [kind |-> "file", id |-> 0, name |-> name]

STDIN == 0
STDOUT == 1

IsOpen(fds, fd) == fd \in Fds /\ fds[fd].kind # "closed"

FreeFds(fds) == {f \in Fds : fds[f].kind = "closed"}

Lowest(S) == CHOOSE x \in S : \A y \in S : x <= y

\* close(fd); its result is never looked at, a bad descriptor is a no-op
close(fds, fd) == IF fd \in Fds THEN [fds EXCEPT ![fd] = Closed] ELSE fds

\* dup2(fd1, fd2) succeeds exactly when fd1 is an open descriptor
dup2_ok(fds, fd1) == IsOpen(fds, fd1)

dup2(fds, fd1, fd2) == [fds EXCEPT ![fd2] = fds[fd1]]

\* ---------------------------------------------------------------- processes
Pids == 0..(MaxProcs - 1)
SHELL == 0
INIT == -1
NOBODY == -2

NoFds == [f \in Fds |-> Closed]

FreeProc ==
  [st |-> "free", parent |-> NOBODY, spawner |-> NOBODY, fds |-> NoFds,
   pipe_fd |-> <<0, 0>>, stack |-> << >>, line |-> << >>, code |-> 0,
   sig |-> FALSE, reads |-> FALSE, image |-> << >>, execd |-> FALSE,
   err |-> "none", reapedBy |-> NOBODY, sdepth |-> 0, tried |-> << >>]

\* a stack frame: main (cmd is NullCmd) or one call of run_cmd(cmd).  kids
\* lists, in order, the processes this process forked in the frame; pipe is
\* the pipe of the frame and owner says that this process created it.
Frame(pc, cmd) ==
  [pc |-> pc, cmd |-> cmd, kids |-> << >>, pipe |-> 0, owner |-> FALSE]

Alive(p) == procs[p].st \in {"run", "prog"}
Dead(p) == procs[p].st \in {"zombie", "reaped"}

Depth(p) == Len(procs[p].stack)
Top(p) == procs[p].stack[Depth(p)]
At_pc(p, pc) == procs[p].st = "run" /\ Depth(p) > 0 /\ Top(p).pc = pc

SetTop(stack, f) == [stack EXCEPT ![Len(stack)] = f]
Pop(stack) == SubSeq(stack, 1, Len(stack) - 1)

\* the first statement of run_cmd(cmd): the case the switch selects
Entry(cmd) ==
  IF cmd.type = CMD_TYPE_EXEC THEN "exec"
  ELSE IF cmd.type = CMD_TYPE_PIPE THEN "pipe"
  ELSE IF IsRedir(cmd) THEN "redir"
  ELSE "default"

\* a call run_cmd(cmd) from the top frame, which resumes at pc ret
Call(stack, ret, cmd) ==
  Append(SetTop(stack, [stack[Len(stack)] EXCEPT !.pc = ret]),
         Frame(Entry(cmd), cmd))

\* the process table after p terminates: its descriptors are closed, its
\* zombie children are reaped by init and its live children become init's;
\* p itself is a zombie until its parent waits (init reaps at once)
Terminate(pr, p, code, sig, err) ==
  [q \in Pids |->
     IF q = p
       THEN [pr[p] EXCEPT
               !.st = IF pr[p].parent = INIT THEN "reaped" ELSE "zombie",
               !.reapedBy = IF pr[p].parent = INIT THEN INIT ELSE NOBODY,
               !.fds = NoFds, !.stack = << >>, !.pipe_fd = <<0, 0>>,
               !.code = code, !.sig = sig,
               !.err = IF err = "none" THEN pr[p].err ELSE err]
     ELSE IF pr[q].parent = p /\ pr[q].st = "zombie"
       THEN [pr[q] EXCEPT !.st = "reaped", !.reapedBy = INIT,
                          !.parent = INIT]
     ELSE IF pr[q].parent = p /\ pr[q].st \in {"run", "prog"}
       THEN [pr[q] EXCEPT !.parent = INIT]
     ELSE pr[q]]

\* exit(code)
exit(p, code, err) == Terminate(procs, p, code, FALSE, err)

\* (mutant) the panic of a failed primitive reports and does not exit
panic_noexit(p, err) == [procs EXCEPT ![p].err = err]

\* panic(hint, true, 1) of a failed primitive of kind err
panic_exit(p, err) == exit(p, 1, err)

FreePids == {q \in Pids : procs[q].st = "free"}

\* the environment may make a primitive fail while its budget lasts
MayFail == nfault < MaxFaults

Inject(kind) == /\ nfault' = IF nfault < MaxFaults THEN nfault + 1 ELSE nfault
                /\ faults' = faults \cup {kind}

NoInject == UNCHANGED <<nfault, faults>>

ParserIdle == UNCHANGED <<in_line, out_cmd, parsed>>

\* the child a successful fork() of p creates in slot c: a copy of p that
\* resumes at childpc and has no children of its own
ForkChild(p, childpc) ==
  [procs[p] EXCEPT
     !.parent = p, !.spawner = p, !.sdepth = Depth(p), !.err = "none",
     !.tried = << >>,
     !.stack = [i \in 1..Depth(p) |->
                  [procs[p].stack[i] EXCEPT
                     !.pc = IF i = Depth(p) THEN childpc ELSE @,
                     !.kids = << >>, !.owner = FALSE]]]

\* fork_wrap() at the top frame of p: on success the child continues at
\* childpc and p at parentpc; on failure p panics and exits with 1
fork_wrap(p, childpc, parentpc) ==
  \/ /\ FreePids # {}
     /\ LET c == Lowest(FreePids)
        IN  procs' = [procs EXCEPT
                        ![c] = ForkChild(p, childpc),
                        ![p].stack = SetTop(@, [Top(p) EXCEPT
                                                  !.pc = parentpc,
                                                  !.kids = Append(@, c)])]
     /\ NoInject
  \/ /\ MayFail \/ FreePids = {}
     /\ procs' = panic_exit(p, "fork")
     /\ Inject("fork")

\* wait(&status) at the top frame of p, which continues by cont(procs):
\* without children it returns at once, otherwise it takes one zombie child
Children(p) == {c \in Pids : procs[c].parent = p /\ procs[c].st # "reaped"}

Zombies(p) == {c \in Children(p) : procs[c].st = "zombie"}

Reap(pr, p, c) == [pr EXCEPT ![c].st = "reaped", ![c].reapedBy = p]

\* ------------------------------------------------------------------- main
\* the lines typed at the prompt
L_simple == <<"a">>
L_pipe == <<"a", "|", "b">>
L_pipe3 == <<"a", "|", "b", "|", "c">>
L_in == <<"a", "<", "f">>
L_out_pipe == <<"a", ">", "f", "|", "b">>
L_pipe_out == <<"a", "|", "b", ">", "f">>
L_out_out == <<"a", ">", "f", ">", "g">>
L_empty == <<>>
L_blank == <<" ">>
L_nocmd == <<">", "f">>
L_alias == <<"l", "l">>
L_cd == <<"c", "d">>
L_cd_dir == <<"c", "d", " ", "x">>
L_quit == <<"q", "u", "i", "t">>

ShellLines == {L_simple, L_pipe, L_pipe3, L_in, L_out_pipe, L_pipe_out, L_out_out, L_empty, L_blank, L_nocmd, L_alias, L_cd, L_cd_dir, L_quit}

\* what the exec'd programs return
ProgCodes == {0, 1}

\* process_builtin_command(line): "done" is a return of 1, "failed" of -1
\* (chdir failed), "nothing" of 0; quit exits.  A line that starts with cd
\* and has no second word indexes the split result out of range.
builtin(line) ==
  IF line = L_cd THEN {"done"}
  ELSE IF Substr(line, 0, 2) = L_cd
    THEN IF Len(string_split(line, WHITE_SPACE)) >= 2
           THEN {"done", "failed"}
           ELSE {"done", "failed", "crash"}
  ELSE IF line = L_quit THEN {"quit"}
  ELSE {"nothing"}

\* the top frame of p moves to pc
Goto(pr, p, pc) ==
  [pr EXCEPT ![p].stack = SetTop(@, [@[Len(@)] EXCEPT !.pc = pc])]

\* break out of the switch: run_cmd returns to its caller
Return(pr, p) == [pr EXCEPT ![p].stack = Pop(@)]

\* The table follows the processes of one input line.  At the prompt the
\* shell has no child left (its one child was waited for); what remains in
\* the table was reaped or belongs to init (a process whose ancestor exited
\* early, which the shell can neither wait for nor share a pipe with), and
\* is not followed into the next line.
Forget(pr) == [q \in Pids |-> IF q = SHELL THEN pr[q] ELSE FreeProc]

\* one round of the loop of main up to the fork: prompt, read_line, trim,
\* process_builtin_command; continue when the builtin handled the line
MainReadLine ==
  /\ At_pc(SHELL, "prompt")
  /\ \E raw \in ShellLines :
       LET line == trim(raw)
           pr   == [Forget(procs) EXCEPT
                      ![SHELL].line = line,
                      ![SHELL].stack = <<Frame("prompt", NullCmd)>>]
       IN  \E r \in builtin(line) :
             procs' =
               IF r = "done" THEN pr
               ELSE IF r = "quit" THEN Terminate(pr, SHELL, 0, FALSE, "none")
               ELSE IF r = "crash" THEN Terminate(pr, SHELL, 0, TRUE, "none")
               ELSE Goto(pr, SHELL, "fork")
  /\ nfault' = 0
  /\ faults' = {}
  /\ ParserIdle

\* fork a new me to execute the typed command
MainFork ==
  /\ At_pc(SHELL, "fork")
  /\ fork_wrap(SHELL, "child", "wait")
  /\ ParserIdle

\* parse, tabulated over the lines main can hand to it (the typed lines,
\* trimmed)
ParseTable == [line \in {trim(raw) : raw \in ShellLines} |-> parse(line)]

\* the forked child: cmd_ = parse(line); run_cmd(cmd_)
MainChild(p) ==
  /\ At_pc(p, "child")
  /\ procs' = [procs EXCEPT
                 ![p].stack = Call(@, "exit0", ParseTable[procs[p].line])]
  /\ NoInject /\ ParserIdle

\* (mutant) the child does not exit after run_cmd: it goes on to the wait
\* of main, which returns at once, and round the loop to the prompt
MainExit_falls_through(p) ==
  /\ At_pc(p, "exit0")
  /\ procs' = Goto(procs, p, "prompt")
  /\ NoInject /\ ParserIdle

\* exit(0) after run_cmd returned
MainExit(p) ==
  /\ At_pc(p, "exit0")
  /\ procs' = exit(p, 0, "none")
  /\ NoInject /\ ParserIdle

\* wait(&wait_status) in the shell, then check_wait_status (which reports
\* nothing: SHOW_WAIT_PANIC is false)
MainWait ==
  /\ At_pc(SHELL, "wait")
  /\ \/ /\ Children(SHELL) = {}
        /\ procs' = Goto(procs, SHELL, "prompt")
     \/ \E c \in Zombies(SHELL) :
          procs' = Goto(Reap(procs, SHELL, c), SHELL, "prompt")
  /\ NoInject /\ ParserIdle

\* ---------------------------------------------------------------- run_cmd
L_ll == <<"l", "l">>
L_ls_l == <<"l", "s", " ", "-", "l">>

\* the alias table of init_alias: ll -> ls -l, spliced in place of argv[0]
alias(argv) ==
  IF argv[1] = L_ll THEN string_split(L_ls_l, WHITE_SPACE) \o Tail(argv)
                    ELSE argv

RECURSIVE c_str_from(_, _)
c_str_from(argv, i) ==
  IF i > Len(argv) THEN << >>
  ELSE LET arg_trim == trim(argv[i])
       IN  (IF Len(arg_trim) > 0 THEN <<arg_trim>> ELSE << >>)
             \o c_str_from(argv, i + 1)

\* the argument vector handed to execvp: trimmed, blank strings skipped
argv_c_str(argv) == c_str_from(argv, 1)

\* the program p runs after a successful execvp: the image is replaced, the
\* descriptors stay as they are
Image(p, args, reads) ==
  [procs[p] EXCEPT !.st = "prog", !.stack = << >>, !.pipe_fd = <<0, 0>>,
                   !.image = args, !.reads = reads, !.execd = TRUE]

\* p has called execvp for the Simple node with argument vector argv
Tried(pr, p, argv) == [pr EXCEPT ![p].tried = Append(@, argv)]

\* CMD_TYPE_EXEC.  With an empty argv, argv[0] is read from an empty vector,
\* and with only blank arguments execvp gets a null file name: the process is
\* killed or the call fails.  A failed execvp panics without exiting and the
\* case breaks, so run_cmd returns.
Exec(p) ==
  /\ At_pc(p, "exec")
  /\ LET argv == Top(p).cmd.argv
         pr     == Tried(procs, p, argv)
         failed == Return([pr EXCEPT ![p].err = "exec"], p)
     IN  IF argv = << >> \/ argv_c_str(alias(argv)) = << >>
           THEN /\ \/ procs' = Terminate(pr, p, 0, TRUE, "argv")
                   \/ procs' = Return([pr EXCEPT ![p].err = "argv"], p)
                /\ NoInject
           ELSE \/ /\ \E reads \in BOOLEAN :
                        procs' = Tried([procs EXCEPT
                                          ![p] = Image(p, argv_c_str(alias(argv)),
                                                       reads)], p, argv)
                   /\ NoInject
                \/ /\ MayFail
                   /\ procs' = failed
                   /\ Inject("exec")
  /\ ParserIdle

\* pipe ids no live process refers to
UsedPipes ==
  {procs[q].fds[f].id : q \in {r \in Pids : Alive(r)},
                        f \in Fds} \ {0}

FreshPipe == Lowest((1..MaxProcs) \ UsedPipes)

\* CMD_TYPE_PIPE: pipe_wrap(pipe_fd), the two lowest free descriptors
PipeCreate(p) ==
  /\ At_pc(p, "pipe")
  /\ LET free == FreeFds(procs[p].fds)
     IN  \/ /\ Cardinality(free) >= 2
            /\ LET r == Lowest(free)
                   w == Lowest(free \ {r})
                   k == FreshPipe
               IN  procs' = [procs EXCEPT
                              ![p].fds = [@ EXCEPT ![r] = PipeR(k),
                                                   ![w] = PipeW(k)],
                              ![p].pipe_fd = <<r, w>>,
                              ![p].stack = SetTop(@, [Top(p) EXCEPT
                                                        !.pc = "fork1",
                                                        !.pipe = k,
                                                        !.owner = TRUE])]
            /\ NoInject
         \/ /\ MayFail \/ Cardinality(free) < 2
            /\ procs' = panic_exit(p, "pipe")
            /\ Inject("pipe")
  /\ ParserIdle

\* if (fork_wrap() == 0) { lhs }
PipeFork1(p) ==
  /\ At_pc(p, "fork1")
  /\ fork_wrap(p, "lchild", "fork2")
  /\ ParserIdle

\* dup2_wrap(fd1, ...) on descriptor table fds of p: on success the step
\* goes on to the process table done, on failure p panics and exits with 1
dup2_wrap(p, fds, fd1, done) ==
  \/ /\ dup2_ok(fds, fd1)
     /\ procs' = done
     /\ NoInject
  \/ /\ dup2_ok(fds, fd1) /\ MayFail
     /\ procs' = panic_exit(p, "dup2")
     /\ Inject("dup2")
  \/ /\ ~dup2_ok(fds, fd1)
     /\ procs' = panic_exit(p, "dup2")
     /\ NoInject

\* (mutant) the left child keeps the read end open
PipeLeft_keeps_read(p) ==
  /\ At_pc(p, "lchild")
  /\ LET fds == procs[p].fds
     IN  dup2_wrap(p, fds, procs[p].pipe_fd[2],
                   [procs EXCEPT
                      ![p].fds = dup2(fds, procs[p].pipe_fd[2], STDOUT),
                      ![p].stack = Call(@, "lafter", Top(p).cmd.left)])
  /\ ParserIdle

\* the left child: close(pipe_fd[0]); dup2_wrap(pipe_fd[1], stdout);
\* run_cmd(pcmd->left)
PipeLeft(p) ==
  /\ At_pc(p, "lchild")
  /\ LET fds == close(procs[p].fds, procs[p].pipe_fd[1])
     IN  dup2_wrap(p, fds, procs[p].pipe_fd[2],
                   [procs EXCEPT
                      ![p].fds = dup2(fds, procs[p].pipe_fd[2], STDOUT),
                      ![p].stack = Call(@, "lafter", Top(p).cmd.left)])
  /\ ParserIdle

\* the left child after run_cmd returned: close(pipe_fd[1]), and on to the
\* second fork
PipeLeftAfter(p) ==
  /\ At_pc(p, "lafter")
  /\ procs' = Goto([procs EXCEPT
                      ![p].fds = close(@, procs[p].pipe_fd[2])], p, "fork2")
  /\ NoInject /\ ParserIdle

\* if (fork_wrap() == 0) { rhs }
PipeFork2(p) ==
  /\ At_pc(p, "fork2")
  /\ fork_wrap(p, "rchild", "pclose")
  /\ ParserIdle

\* (mutant) the right child keeps the write end open
PipeRight_keeps_write(p) ==
  /\ At_pc(p, "rchild")
  /\ LET fds == procs[p].fds
     IN  dup2_wrap(p, fds, procs[p].pipe_fd[1],
                   [procs EXCEPT
                      ![p].fds = dup2(fds, procs[p].pipe_fd[1], STDIN),
                      ![p].stack = Call(@, "rafter", Top(p).cmd.right)])
  /\ ParserIdle

\* the right child: close(pipe_fd[1]); dup2_wrap(pipe_fd[0], stdin);
\* run_cmd(pcmd->right)
PipeRight(p) ==
  /\ At_pc(p, "rchild")
  /\ LET fds == close(procs[p].fds, procs[p].pipe_fd[2])
     IN  dup2_wrap(p, fds, procs[p].pipe_fd[1],
                   [procs EXCEPT
                      ![p].fds = dup2(fds, procs[p].pipe_fd[1], STDIN),
                      ![p].stack = Call(@, "rafter", Top(p).cmd.right)])
  /\ ParserIdle

\* the right child after run_cmd returned: close(pipe_fd[0])
PipeRightAfter(p) ==
  /\ At_pc(p, "rafter")
  /\ procs' = Goto([procs EXCEPT
                      ![p].fds = close(@, procs[p].pipe_fd[1])], p, "pclose")
  /\ NoInject /\ ParserIdle

\* (mutant) the parent closes the read end only
PipeParentClose_keeps_write(p) ==
  /\ At_pc(p, "pclose")
  /\ procs' = Goto([procs EXCEPT
                      ![p].fds = close(@, procs[p].pipe_fd[1])], p, "wait1")
  /\ NoInject /\ ParserIdle

\* close(pipe_fd[0]); close(pipe_fd[1])
PipeParentClose(p) ==
  /\ At_pc(p, "pclose")
  /\ procs' = Goto([procs EXCEPT
                      ![p].fds = close(close(@, procs[p].pipe_fd[1]),
                                       procs[p].pipe_fd[2])], p, "wait1")
  /\ NoInject /\ ParserIdle

\* wait(&wait_status_1)
PipeWait1(p) ==
  /\ At_pc(p, "wait1")
  /\ \/ /\ Children(p) = {}
        /\ procs' = Goto(procs, p, "wait2")
     \/ \E c \in Zombies(p) : procs' = Goto(Reap(procs, p, c), p, "wait2")
  /\ NoInject /\ ParserIdle

\* (mutant) the parent waits for one child only
PipeWait2_skip(p) ==
  /\ At_pc(p, "wait2")
  /\ procs' = Return(procs, p)
  /\ NoInject /\ ParserIdle

\* wait(&wait_status_2); check_wait_status twice; break
PipeWait2(p) ==
  /\ At_pc(p, "wait2")
  /\ \/ /\ Children(p) = {}
        /\ procs' = Return(procs, p)
     \/ \E c \in Zombies(p) : procs' = Return(Reap(procs, p, c), p)
  /\ NoInject /\ ParserIdle

\* CMD_TYPE_REDIR_IN / CMD_TYPE_REDIR_OUT: if (fork_wrap() == 0) { ... }
RedirFork(p) ==
  /\ At_pc(p, "redir")
  /\ fork_wrap(p, "rdchild", "rdwait")
  /\ ParserIdle

\* the child: rcmd->fd = open_wrap(file, oflag); dup2_wrap(rcmd->fd, stdin
\* or stdout); run_cmd(rcmd->cmd_)
RedirChild(p) ==
  /\ At_pc(p, "rdchild")
  /\ LET rcmd == Top(p).cmd
         free == FreeFds(procs[p].fds)
         fd   == Lowest(free)
         fds  == [procs[p].fds EXCEPT ![fd] = File(rcmd.file)]
         std  == IF rcmd.type = CMD_TYPE_REDIR_IN THEN STDIN ELSE STDOUT
     IN  \/ /\ free # {}
            /\ dup2_wrap(p, fds, fd,
                         [procs EXCEPT
                            ![p].fds = dup2(fds, fd, std),
                            ![p].stack =
                               Call(SetTop(@, [Top(p) EXCEPT !.cmd.fd = fd]),
                                    "rdclose", rcmd.cmd_)])
         \/ /\ MayFail \/ free = {}
            /\ procs' = panic_exit(p, "open")
            /\ Inject("open")
  /\ ParserIdle

\* the child after run_cmd returned: close(rcmd->fd)
RedirClose(p) ==
  /\ At_pc(p, "rdclose")
  /\ procs' = Goto([procs EXCEPT ![p].fds = close(@, Top(p).cmd.fd)],
                   p, "rdwait")
  /\ NoInject /\ ParserIdle

\* wait(&wait_status); check_wait_status; break
RedirWait(p) ==
  /\ At_pc(p, "rdwait")
  /\ \/ /\ Children(p) = {}
        /\ procs' = Return(procs, p)
     \/ \E c \in Zombies(p) : procs' = Return(Reap(procs, p, c), p)
  /\ NoInject /\ ParserIdle

\* ------------------------------------------------------- exec'd programs
\* a read of standard input returns end-of-input: always on a terminal or a
\* file, on a pipe once no live process holds a write end of it
AtEOF(p) ==
  LET in == procs[p].fds[STDIN]
  IN  in.kind = "pr" =>
        ~\E q \in Pids, f \in Fds : Alive(q) /\ procs[q].fds[f] = PipeW(in.id)

\* an exec'd program terminates, at end-of-input if it reads standard input
ProgExit(p) ==
  /\ procs[p].st = "prog"
  /\ procs[p].reads => AtEOF(p)
  /\ \E code \in ProgCodes : procs' = exit(p, code, "none")
  /\ NoInject /\ ParserIdle

\* ---------------------------------------------------------- specification
ShellProc ==
  [FreeProc EXCEPT !.st = "run", !.parent = INIT, !.spawner = INIT,
                   !.fds = [f \in Fds |-> IF f <= 2 THEN Tty ELSE Closed],
                   !.stack = <<Frame("prompt", NullCmd)>>]

Init ==
  /\ procs = [q \in Pids |-> IF q = SHELL THEN ShellProc ELSE FreeProc]
  /\ nfault = 0
  /\ faults = {}
  /\ in_line = << >>
  /\ out_cmd = NullCmd
  /\ parsed = FALSE

Step(p) ==
  \/ MainChild(p) \/ MainExit(p)
  \/ Exec(p)
  \/ PipeCreate(p) \/ PipeFork1(p) \/ PipeLeft(p) \/ PipeLeftAfter(p)
  \/ PipeFork2(p) \/ PipeRight(p) \/ PipeRightAfter(p)
  \/ PipeParentClose(p) \/ PipeWait1(p) \/ PipeWait2(p)
  \/ RedirFork(p) \/ RedirChild(p) \/ RedirClose(p) \/ RedirWait(p)
  \/ ProgExit(p)

ShellStep == MainReadLine \/ MainFork \/ MainWait

Next == ShellStep \/ \E p \in Pids : Step(p)

Spec == Init /\ [][Next]_vars

\* The runs in which no OS primitive fails by the environment's choice (a
\* dup2 of a descriptor the process has closed still fails, as it must).
\* The kernel schedules every runnable process, and a shell that is not at
\* the prompt goes on by itself; when the next line is typed is up to the user.
NoFaultShellStep == ShellStep /\ nfault' = 0

NoFaultStep == (\E p \in Pids : Step(p)) /\ nfault' = 0

NoFaultNext == NoFaultShellStep \/ NoFaultStep

Fairness ==
  /\ WF_vars((MainFork \/ MainWait) /\ nfault' = 0)
  /\ WF_vars(NoFaultStep)

NoFaultSpec == Init /\ [][NoFaultNext]_vars /\ Fairness

\* ----------------------------------- specification of run_cmd on a tree
\* run_cmd takes any tree of cmd nodes.  parse never nests a redirect node
\* in a redirect node, so the executor's treatment of such a tree is looked
\* at from the state in which the process forked by main is about to call
\* run_cmd on it, the shell waiting; from the next prompt on the shell goes
\* on as usual.
L_in_in == <<"a", "<", "f", "<", "g">>

Tree_out_out ==
  redirect_cmd(CMD_TYPE_REDIR_OUT,
               redirect_cmd(CMD_TYPE_REDIR_OUT, exec_cmd(<< <<"a">> >>),
                            <<"f">>, -1),
               <<"g">>, -1)

Tree_in_in ==
  redirect_cmd(CMD_TYPE_REDIR_IN,
               redirect_cmd(CMD_TYPE_REDIR_IN, exec_cmd(<< <<"a">> >>),
                            <<"f">>, -1),
               <<"g">>, -1)

RunInputs == {[line |-> L_out_out, tree |-> Tree_out_out],
              [line |-> L_in_in, tree |-> Tree_in_in]}

RunInit ==
  /\ \E in \in RunInputs :
       procs =
         [q \in Pids |->
            IF q = SHELL
              THEN [ShellProc EXCEPT
                      !.line = in.line,
                      !.stack = <<[Frame("wait", NullCmd) EXCEPT
                                     !.kids = <<1>>]>>]
            ELSE IF q = 1
              THEN [ShellProc EXCEPT
                      !.parent = SHELL, !.spawner = SHELL, !.sdepth = 1,
                      !.line = in.line,
                      !.stack = Call(<<Frame("child", NullCmd)>>, "exit0",
                                     in.tree)]
            ELSE FreeProc]
  /\ nfault = 0
  /\ faults = {}
  /\ in_line = << >>
  /\ out_cmd = NullCmd
  /\ parsed = FALSE

RunSpec == RunInit /\ [][Next]_vars

\* ------------------------------------------- specification of the parser
Alphabet == {"a", "b", " ", "|", "<", ">", QUOTE}

\* the test cases in the comment above parse
Doc_ls == <<"l", "s", " ", "-", "a", " ", "<", " ", "a", ".", "t", "x", "t", " ", "|", " ", "g", "r", "e", "p", " ", "l", "i", "n", "u", "x", " ", ">", " ", "b", ".", "t", "x", "t">>
Doc_some_bin == <<"s", "o", "m", "e", "_", "b", "i", "n", " ", QUOTE, "h", "e", "l", "l", "o", " ", "w", "o", "r", "l", "d", QUOTE, " ", ">", " ", "b", ".", "t", "x", "t", " ", ">", " ", "c", ".", "t", "x", "t">>

\* the quoting example: echo "hello world" > c.txt
Doc_echo == <<"e", "c", "h", "o", " ", QUOTE, "h", "e", "l", "l", "o", " ", "w", "o", "r", "l", "d", QUOTE, " ", ">", " ", "c", ".", "t", "x", "t">>

ParseLines ==
  UNION {[1..n -> Alphabet] : n \in 0..MaxLen}
    \cup {Doc_ls, Doc_some_bin, Doc_echo}

ParseInit ==
  /\ in_line \in ParseLines
  /\ out_cmd = NullCmd
  /\ parsed = FALSE
  /\ procs = [q \in Pids |-> IF q = SHELL THEN ShellProc ELSE FreeProc]
  /\ nfault = 0
  /\ faults = {}

\* cmd_ = parse(line)
DoParse ==
  /\ ~parsed
  /\ out_cmd' = parse(in_line)
  /\ parsed' = TRUE
  /\ UNCHANGED <<procs, nfault, faults, in_line>>

ParseNext == DoParse

ParseSpec == ParseInit /\ [][ParseNext]_vars

\* ================================================================ claims
Spawned == {p \in Pids \ {SHELL} : procs[p].st # "free"}

\* q is a or a process descended from a
RECURSIVE IsDesc(_, _)
IsDesc(q, a) ==
  \/ q = a
  \/ /\ q \in Pids \ {SHELL}
     /\ procs[q].spawner \in Pids
     /\ IsDesc(procs[q].spawner, a)

\* the live processes that hold a write end of pipe k in some descriptor
Writers(k) ==
  {q \in Pids : Alive(q) /\ \E f \in Fds : procs[q].fds[f] = PipeW(k)}

\* p coordinates a Pipe node whose pipe it created, and has started waiting
PipeParentWaiting(p) ==
  /\ procs[p].st = "run" /\ Depth(p) > 0
  /\ Top(p).pc \in {"wait1", "wait2"}
  /\ Top(p).owner
  /\ Len(Top(p).kids) = 2

\* C2 as stated: once the pipe parent waits, only the left child and its
\* descendants hold the write end of the pipe.
C2_OnlyLeftHoldsWriteEnd ==
  \A p \in Pids :
    PipeParentWaiting(p) =>
      \A q \in Writers(Top(p).pipe) : IsDesc(q, Top(p).kids[1])

\* the right child of the Pipe frame on top of p has not yet run its
\* close(pipe_fd[1]), the first thing it does
RightChildNotStarted(p) ==
  LET r == Top(p).kids[2]
  IN  procs[r].st = "run" /\ Top(r).pc = "rchild" /\ Depth(r) = Depth(p)

\* the right child of the Pipe frame of p and everything it spawned
RightSide(p) == {q \in Pids : q # SHELL /\ procs[q].st # "free"
                               /\ IsDesc(q, Top(p).kids[2])}

LeftSide(p) == {q \in Pids : q # SHELL /\ procs[q].st # "free"
                              /\ IsDesc(q, Top(p).kids[1])}

\* C2 (amended): once the pipe parent waits, the write end of the pipe is
\* held only by the left child, by processes descended from the left child
\* and, until its first step closes it, by the right child; no process
\* executing the right subtree holds it, and once every left-side process
\* has terminated and the right child has closed it, no write end is open,
\* so a reader on the right side is at end-of-input.
C2_WriteEndOnlyLeftOrUnstartedRight ==
  \A p \in Pids :
    PipeParentWaiting(p) =>
      /\ \A q \in Writers(Top(p).pipe) :
           \/ IsDesc(q, Top(p).kids[1])
           \/ q = Top(p).kids[2] /\ RightChildNotStarted(p)
      /\ \A f \in Fds : procs[p].fds[f].kind \notin {"pr", "pw"}
                          \/ procs[p].fds[f].id # Top(p).pipe
      /\ ((\A q \in LeftSide(p) : ~Alive(q)) /\ ~RightChildNotStarted(p))
           => /\ Writers(Top(p).pipe) = {}
              /\ \A q \in RightSide(p) :
                   (procs[q].st = "prog"
                      /\ procs[q].fds[STDIN] = PipeR(Top(p).pipe)) => AtEOF(q)

\* C2 witness: the parent waits, the whole left side has terminated, and a
\* program on the right that reads the pipe is at end-of-input
C2_Witness ==
  \E p \in Pids :
    /\ PipeParentWaiting(p)
    /\ \A q \in LeftSide(p) : Dead(q)
    /\ \E q \in RightSide(p) :
         /\ procs[q].st = "prog" /\ procs[q].reads
         /\ procs[q].fds[STDIN] = PipeR(Top(p).pipe)
         /\ AtEOF(q)

NoForkFailed == "fork" \notin faults

\* C3: when no fork fails, a process that was reaped was reaped by the
\* process that spawned it; while a spawned process has not been reaped, its
\* spawner is still inside the call of run_cmd (or the round of main) that
\* spawned it; and when the shell is back at the prompt, every process of
\* the line has been reaped.
C3_ReapedOnceBySpawner ==
  NoForkFailed =>
    /\ \A c \in Spawned :
         /\ procs[c].st = "reaped" => procs[c].reapedBy = procs[c].spawner
         /\ procs[c].st # "reaped" =>
              /\ procs[procs[c].spawner].st = "run"
              /\ Depth(procs[c].spawner) >= procs[c].sdepth
              /\ c \in Children(procs[c].spawner)
    /\ At_pc(SHELL, "prompt") => \A c \in Spawned : procs[c].st = "reaped"

\* C3 witness: a | b | c has run, no fork failed, the three programs and the
\* two coordinating children have each been reaped by their spawner
C3_Witness ==
  /\ At_pc(SHELL, "prompt")
  /\ procs[SHELL].line = L_pipe3
  /\ NoForkFailed
  /\ Cardinality({c \in Spawned : procs[c].execd /\ procs[c].st = "reaped"
                                   /\ procs[c].reapedBy = procs[c].spawner}) = 3
  /\ Cardinality(Spawned) >= 5

\* C4 as stated: a process about to exec holds no pipe end and no
\* redirection file outside its standard input and output.
C4_ExecHoldsNoOriginal ==
  \A p \in Pids :
    At_pc(p, "exec") =>
      \A f \in Fds \ {STDIN, STDOUT} :
        procs[p].fds[f].kind \notin {"pr", "pw", "file"}

\* C5 as stated: a process whose execvp failed has terminated with a
\* non-zero status (and so takes no further step of the tree walker).
C5_ExecFailureExits ==
  \A p \in Pids :
    (procs[p].err = "exec" /\ procs[p].st # "free") =>
      Dead(p) /\ (procs[p].code # 0 \/ procs[p].sig)

\* the process forked by main for the line, once the shell has waited for it
LineStatus(top) ==
  /\ procs[top].spawner = SHELL
  /\ procs[top].st = "reaped"
  /\ procs[top].reapedBy = SHELL

\* C6 as stated: when exec, open or dup2 failed in some process of the line,
\* the status the shell's wait collects is non-zero.
C6_FailureMakesLineFail ==
  \A top \in Spawned :
    (LineStatus(top) /\ \E p \in Spawned :
                          procs[p].err \in {"exec", "open", "dup2"})
      => (procs[top].code # 0 \/ procs[top].sig)

\* p sits at a wait() call
AtWait(p) ==
  procs[p].st = "run" /\ Depth(p) > 0
    /\ Top(p).pc \in {"wait", "wait1", "wait2", "rdwait"}

\* C7: a child in which open or dup2 failed has terminated with exit status
\* 1, has exec'd nothing and has spawned nothing, and a parent that waits
\* can collect it.
C7_IoFailureExits ==
  \A p \in Pids :
    procs[p].err \in {"open", "dup2"} =>
      /\ Dead(p)
      /\ procs[p].code = 1 /\ ~procs[p].sig
      /\ ~procs[p].execd
      /\ \A q \in Spawned : procs[q].spawner # p
      /\ (procs[p].st = "zombie" /\ AtWait(procs[p].parent))
           => p \in Zombies(procs[p].parent)

\* C7 witness: open failed in a redirect child, dup2 failed in another
\* child, and both have been collected by the wait of their parent
C7_Witness ==
  \E p, q \in Spawned :
    /\ procs[p].err = "open" /\ procs[p].st = "reaped"
    /\ procs[p].reapedBy = procs[p].spawner
    /\ procs[q].err = "dup2" /\ procs[q].st = "reaped"
    /\ procs[q].reapedBy = procs[q].spawner

\* the shell waits for the process of the line
Busy == At_pc(SHELL, "wait")

\* the shell is back at the prompt and no process of the line is left
Quiet == At_pc(SHELL, "prompt") /\ \A p \in Spawned : ~Alive(p)

\* C1: in the runs without a failing OS primitive, the shell that waits for
\* the line eventually is back at the prompt with every process spawned for
\* the line terminated (none blocked in wait or on a pipe read).
C1_NoHang == Busy ~> Quiet

\* C1 witness: a | b | c has run without a failure, each of the three
\* programs read its standard input to the end, and the shell is back
C1_Witness ==
  /\ Quiet
  /\ procs[SHELL].line = L_pipe3
  /\ faults = {}
  /\ Cardinality({c \in Spawned : procs[c].execd /\ procs[c].reads
                                   /\ procs[c].st = "reaped"}) = 3

\* ------------------------------------------------------ claims on parse
RECURSIVE Redirs(_)
Redirs(c) ==
  IF c.type = CMD_TYPE_PIPE THEN Redirs(c.left) \cup Redirs(c.right)
  ELSE IF IsRedir(c) THEN {c} \cup Redirs(c.cmd_)
  ELSE {}

RECURSIVE Simples(_)
Simples(c) ==
  IF c.type = CMD_TYPE_PIPE THEN Simples(c.left) \cup Simples(c.right)
  ELSE IF IsRedir(c) THEN Simples(c.cmd_)
  ELSE IF c.type = CMD_TYPE_EXEC THEN {c}
  ELSE {}

\* positions (0-based) of the redirection operators of a line
OpsAt(line) == {i \in 0..(Len(line) - 1) : At(line, i) \in {"<", ">"}}

\* the text strictly between the operator at i and the next symbol or the
\* end of the line
Between(line, i) ==
  LET n == CHOOSE m \in (i + 1)..Len(line) :
             /\ m = Len(line) \/ is_symbol(At(line, m))
             /\ \A k \in (i + 1)..(m - 1) : ~is_symbol(At(line, k))
  IN  Substr(line, i + 1, n - (i + 1))

NoQuote(line) == \A i \in 1..Len(line) : line[i] # QUOTE

\* every redirection operator of the line is followed by a file name
HasFileNames(line) ==
  /\ NoQuote(line)
  /\ \A i \in OpsAt(line) : trim(Between(line, i)) # << >>

\* the segments of a line between its pipe operators, empty ones included
RECURSIVE PipeSegments(_)
PipeSegments(line) ==
  LET q == find_first_of(line, {"|"}, 0)
  IN  IF q < Len(line)
        THEN <<Substr(line, 0, q)>> \o PipeSegments(SubstrFrom(line, q + 1))
        ELSE <<line>>

\* every pipeline segment of the line starts with a command word
HasCommands(line) ==
  \A k \in 1..Len(PipeSegments(line)) :
    LET seg == PipeSegments(line)[k]
    IN  trim(Substr(seg, 0, find_first_of(seg, {"<", ">"}, 0))) # << >>

\* a line of words, file names and operators: no quoting, a command in
\* every pipeline segment and a file name after every redirection operator
WellFormed(line) == HasFileNames(line) /\ HasCommands(line)

Tree_Doc_ls ==
  pipe_cmd(redirect_cmd(CMD_TYPE_REDIR_IN,
                        exec_cmd(<< <<"l", "s">>, <<"-", "a">> >>),
                        <<"a", ".", "t", "x", "t">>, -1),
           redirect_cmd(CMD_TYPE_REDIR_OUT,
                        exec_cmd(<< <<"g", "r", "e", "p">>,
                                    <<"l", "i", "n", "u", "x">> >>),
                        <<"b", ".", "t", "x", "t">>, -1))

\* C8 as stated: the file name of every redirect node parse builds is the
\* trimmed text strictly between a redirection operator of the line and the
\* next symbol or the end of the line, and the documented line
\* "ls -a < a.txt | grep linux > b.txt" parses to the documented tree.
C8_FileIsTextBeforeNextSymbol ==
  (parsed /\ WellFormed(in_line)) =>
    /\ \A n \in Redirs(out_cmd) :
         \E i \in OpsAt(in_line) : n.file = trim(Between(in_line, i))
    /\ in_line = Doc_ls => out_cmd = Tree_Doc_ls

\* the commands of a right-nested pipeline, left to right
RECURSIVE Stages(_)
Stages(c) ==
  IF c.type = CMD_TYPE_PIPE THEN <<c.left>> \o Stages(c.right) ELSE <<c>>

\* the redirect types of a chain of redirect nodes, innermost first
RECURSIVE ChainTypes(_)
ChainTypes(c) ==
  IF IsRedir(c) THEN Append(ChainTypes(c.cmd_), c.type) ELSE << >>

\* the redirect types the operators of a segment ask for, in text order
RECURSIVE OpTypes(_)
OpTypes(seg) ==
  IF seg = << >> THEN << >>
  ELSE (IF Head(seg) = "<" THEN <<CMD_TYPE_REDIR_IN>>
        ELSE IF Head(seg) = ">" THEN <<CMD_TYPE_REDIR_OUT>>
        ELSE << >>) \o OpTypes(Tail(seg))

\* C9 as stated: every redirection operator of a pipeline segment is kept,
\* as a chain of redirect nodes nested in text order (the later operator
\* outermost).
C9_AllRedirectsKept ==
  (parsed /\ WellFormed(in_line)) =>
    LET segs == PipeSegments(in_line)
        st   == Stages(out_cmd)
    IN  /\ Len(st) = Len(segs)
        /\ \A k \in 1..Len(segs) : ChainTypes(st[k]) = OpTypes(segs[k])

\* C10 as stated: parse returns no Simple node with an empty argv.
C10_NoEmptyArgv ==
  parsed => \A n \in Simples(out_cmd) : n.argv # << >>

\* positions (1-based) of the double quotes of a line
Quotes(line) == {i \in 1..Len(line) : line[i] = QUOTE}

UnterminatedQuote(line) == Cardinality(Quotes(line)) % 2 = 1

\* an unquoted line with a redirection operator that no file name follows
MissingFileName(line) ==
  /\ NoQuote(line)
  /\ \E i \in OpsAt(line) : trim(Between(line, i)) = << >>

\* C11 as stated: for a line with an unterminated double quote or with a
\* redirection operator that no file name follows, parse returns no command
\* (so that nothing is executed for the line).
C11_SyntaxErrorOnBadLine ==
  (parsed /\ (UnterminatedQuote(in_line) \/ MissingFileName(in_line)))
    => out_cmd.type = CMD_TYPE_NULL

\* C12 as stated: for the line s1 | s2 | ... | sn, parse returns the
\* right-nested pipeline of the commands parsed from the segments alone, and
\* no left child of a pipe node is a pipe node.
C12_PipeRightAssoc ==
  parsed =>
    LET segs == PipeSegments(in_line)
        st   == Stages(out_cmd)
    IN  /\ Len(st) = Len(segs)
        /\ \A k \in 1..Len(st) : st[k].type # CMD_TYPE_PIPE
        /\ \A k \in 1..Min(Len(st), Len(segs)) : st[k] = parse(segs[k])

\* the double-quoted substrings of a line with balanced quotes, from
\* position i (0-based) on, without their quotes
RECURSIVE QuotedParts(_, _)
QuotedParts(line, i) ==
  LET q == find_first_of(line, {QUOTE}, i)
      e == find_first_of(line, {QUOTE}, q + 1)
  IN  IF q >= Len(line) \/ e >= Len(line) THEN {}
      ELSE {Substr(line, q + 1, e - q - 1)} \cup QuotedParts(line, e + 1)

\* s occurs in t as a run of consecutive characters
Contains(t, s) ==
  \E a \in 1..(Len(t) - Len(s) + 1) : SubSeq(t, a, a + Len(s) - 1) = s

Tree_Doc_echo ==
  redirect_cmd(CMD_TYPE_REDIR_OUT,
               exec_cmd(<< <<"e", "c", "h", "o">>,
                           <<"h", "e", "l", "l", "o", " ", "w", "o", "r", "l", "d">> >>),
               <<"c", ".", "t", "x", "t">>, -1)

\* C13 as stated: for a line with balanced double quotes, every (non-empty)
\* double-quoted substring is found, whole and with its white space, inside
\* one argv token of a Simple node, no argv token contains a quote, and
\* echo "hello world" > c.txt parses to the documented tree.
C13_QuotedIsOneToken ==
  (parsed /\ ~UnterminatedQuote(in_line)) =>
    /\ \A s \in QuotedParts(in_line, 0) :
         s # << >> =>
           \E n \in Simples(out_cmd) :
             \E k \in 1..Len(n.argv) : Contains(n.argv[k], s)
    /\ \A n \in Simples(out_cmd) :
         \A k \in 1..Len(n.argv) : ~Contains(n.argv[k], <<QUOTE>>)
    /\ in_line = Doc_echo => out_cmd = Tree_Doc_echo

\* ------------------------------------------- claims on main and run_cmd
\* C14 as stated: the shell process is ended by the quit builtin only;
\* whatever fails while a line runs, the shell stays alive to prompt again.
C14_OnlyQuitEndsShell ==
  procs[SHELL].st # "run" => procs[SHELL].line = L_quit

\* C15 as stated: a process in which fork failed after it had spawned a
\* child has waited for that child before it terminated: everything it
\* spawned was reaped by it.
C15_ForkFailureStillWaits ==
  \A p \in Pids :
    (procs[p].err = "fork" /\ Dead(p)) =>
      \A c \in Spawned :
        procs[c].spawner = p =>
          procs[c].st = "reaped" /\ procs[c].reapedBy = p

\* the nodes of a tree: Simple leaves, Pipe nodes and Redirect nodes
RECURSIVE Nodes(_)
Nodes(c) ==
  IF c.type = CMD_TYPE_PIPE THEN 1 + Nodes(c.left) + Nodes(c.right)
  ELSE IF IsRedir(c) THEN 1 + Nodes(c.cmd_)
  ELSE 1

\* no primitive has failed in any process of the line
NoFailure == faults = {} /\ \A p \in Pids : procs[p].err = "none"

\* C16 as stated: while every primitive has succeeded, the processes of the
\* line are at most as many as the nodes of the parsed tree, a process has
\* forked at most two children in a Pipe node it coordinates and at most one
\* in a Redirect node, and a process that is itself a child of a Pipe node
\* forks nothing more in that node.
C16_ProcessPerNode ==
  NoFailure =>
    /\ Cardinality(Spawned) <= Nodes(parse(procs[SHELL].line))
    /\ \A p \in Spawned :
         \A i \in 1..Depth(p) :
           LET f == procs[p].stack[i]
           IN  /\ IsRedir(f.cmd) => Len(f.kids) <= 1
               /\ f.cmd.type = CMD_TYPE_PIPE =>
                    Len(f.kids) <= (IF f.owner THEN 2 ELSE 0)

\* the lines process_builtin_command recognises
IsBuiltinLine(line) ==
  line = L_cd \/ Substr(line, 0, 2) = L_cd \/ line = L_quit

\* C18 as stated: for a line recognised as a builtin no process is forked
\* (parse and run_cmd run in the forked process only).
C18_BuiltinNeverForked ==
  IsBuiltinLine(procs[SHELL].line) => Spawned = {}

\* p is about to exec the Simple node of RedirectOut(RedirectOut(S, a), b):
\* the two calls of run_cmd below the one on top are for output redirects
ExecUnderTwoOuts(p) ==
  /\ At_pc(p, "exec")
  /\ Depth(p) >= 3
  /\ procs[p].stack[Depth(p) - 1].cmd.type = CMD_TYPE_REDIR_OUT
  /\ procs[p].stack[Depth(p) - 2].cmd.type = CMD_TYPE_REDIR_OUT

LoopPcs == {"prompt", "fork", "wait"}

\* C19: a process forked for a line is never in the prompt loop: while it
\* runs, its frame of main is in the child branch (before or after its
\* run_cmd call) and all its other frames are calls of run_cmd; so the shell
\* is the only process that is ever at the prompt.
C19_OnlyShellInPromptLoop ==
  /\ \A p \in Spawned :
       procs[p].st = "run" =>
         /\ Depth(p) >= 1
         /\ procs[p].stack[1].pc \in {"child", "exit0"}
         /\ \A i \in 1..Depth(p) : procs[p].stack[i].pc \notin LoopPcs
  /\ \A p \in Pids : At_pc(p, "prompt") => p = SHELL

\* C19 witness: a process forked inside run_cmd whose exec failed has
\* returned from run_cmd and ended by the exit(0) of main's child branch,
\* and the shell is back at the prompt
C19_Witness ==
  /\ At_pc(SHELL, "prompt")
  /\ \E p \in Spawned :
       /\ procs[p].spawner # SHELL
       /\ procs[p].err = "exec"
       /\ Dead(p) /\ procs[p].code = 0 /\ ~procs[p].sig

\* the processes that have called execvp for the Simple node with argv
Attempts(argv) ==
  {p \in Spawned : \E k \in 1..Len(procs[p].tried) : procs[p].tried[k] = argv}

\* C20: for each Simple leaf of the tree parsed from the line, at most one
\* process has called execvp for it, and no process has called execvp twice.
C20_OneExecPerLeaf ==
  /\ \A n \in Simples(parse(procs[SHELL].line)) :
       Cardinality(Attempts(n.argv)) <= 1
  /\ \A p \in Spawned : Len(procs[p].tried) <= 1

\* C20 witness: on a | b the exec of a failed in the left child, which went
\* on to fork again; the process it forked found the read end closed, its
\* dup2 failed unprovoked and it exited with 1 without trying to exec, and
\* b has been exec'd by one process
C20_Witness ==
  /\ procs[SHELL].line = L_pipe
  /\ "dup2" \notin faults
  /\ \E l, x \in Spawned :
       /\ procs[l].err = "exec" /\ procs[l].tried = << <<"a">> >>
       /\ procs[x].spawner = l
       /\ procs[x].err = "dup2" /\ Dead(x) /\ procs[x].code = 1
       /\ procs[x].tried = << >>
  /\ \E r \in Spawned : procs[r].execd /\ Attempts(<< <<"b">> >>) = {r}

====
